---- MODULE Spec2Model ----
(***************************************************************************)
(* Model of sdk/typescript/src/exec.ts: CodexExec.run, CodexExec.runHttp,  *)
(* parseSse and parseUsage.  A run is an async generator; every action is  *)
(* the code executed between two suspension points (an await or a yield).  *)
(***************************************************************************)
EXTENDS Integers, Sequences, FiniteSets, TLC

\* ------------------------------------------------------------------ bounds
MaxCalls == 2      \* calls of run() in one behaviour
MaxReads == 2      \* pieces of output delivered in one behaviour: body chunks
                   \* of responses, stdout lines and stderr chunks of children

\* The generator objects that can be alive at the same time.
Slots == {1, 2}

\* ------------------------------------------------------- text of a response
\* A response body is text; a character is one of the symbols below.  "data:"
\* is one symbol and a JSON document is one symbol, the rest are single
\* characters.
NL == "LF"
DATA == "data:"
SP == " "
COLON == ":"

JsonDocs == {"item:a1", "item:a2", "item:fn", "completed", "error", "created"}

NoThread == "null"
NoItem == [id |-> "", type |-> "", text |-> ""]

\* A JSON value where a number is expected: the member is absent, null, an
\* integer n, the fraction n + 1/2, a string that spells the integer n, or a
\* string that spells no number.  NaN is what Number() makes of the last.
Absent == [kind |-> "absent", n |-> 0]
Null == [kind |-> "null", n |-> 0]
Num(n) == [kind |-> "num", n |-> n]
Frac(n) == [kind |-> "frac", n |-> n]
NumStr(n) == [kind |-> "numstr", n |-> n]
Str == [kind |-> "str", n |-> 0]
NaN == [kind |-> "nan", n |-> 0]

\* The usage member of a response: present or not, its token counts, and its
\* input_tokens_details member (present or not) with cached_tokens.
Usage(input, details, cached, output) ==
  [present |-> TRUE, input_tokens |-> input, details |-> details,
   cached_tokens |-> cached, output_tokens |-> output]
NoUpstreamUsage ==
  [present |-> FALSE, input_tokens |-> Absent, details |-> FALSE,
   cached_tokens |-> Absent, output_tokens |-> Absent]

\* An event without a usage member.
NoUsage == [input_tokens |-> Absent, cached_input_tokens |-> Absent, output_tokens |-> Absent]

\* The object JSON.parse returns for a document.
EventOf(doc) ==
  CASE doc = "item:a1" ->
         [type |-> "response.output_item.done", itemType |-> "message", text |-> "a1",
          message |-> "", usage |-> NoUpstreamUsage]
    [] doc = "item:a2" ->
         [type |-> "response.output_item.done", itemType |-> "message", text |-> "a2",
          message |-> "", usage |-> NoUpstreamUsage]
    [] doc = "item:fn" ->
         [type |-> "response.output_item.done", itemType |-> "function_call", text |-> "",
          message |-> "", usage |-> NoUpstreamUsage]
    [] doc = "completed" ->
         [type |-> "response.completed", itemType |-> "", text |-> "",
          message |-> "", usage |-> Usage(Num(42), TRUE, Num(12), Num(5))]
    [] doc = "error" ->
         [type |-> "error", itemType |-> "", text |-> "",
          message |-> "rate limit exceeded", usage |-> NoUpstreamUsage]
    [] OTHER ->
         [type |-> "response.created", itemType |-> "", text |-> "",
          message |-> "", usage |-> NoUpstreamUsage]

\* String.prototype.split(sep) for a separator of one or two characters:
\* the pieces between the non-overlapping occurrences found left to right.
RECURSIVE SplitOn(_, _, _)
SplitOn(s, sep, cur) ==
  IF s = <<>> THEN <<cur>>
  ELSE IF Len(s) >= Len(sep) /\ SubSeq(s, 1, Len(sep)) = sep
       THEN <<cur>> \o SplitOn(SubSeq(s, Len(sep) + 1, Len(s)), sep, <<>>)
       ELSE SplitOn(Tail(s), sep, Append(cur, Head(s)))

RECURSIVE TrimLeft(_)
TrimLeft(s) == IF s # <<>> /\ Head(s) \in {SP, NL} THEN TrimLeft(Tail(s)) ELSE s

RECURSIVE TrimRight(_)
TrimRight(s) ==
  IF s # <<>> /\ s[Len(s)] \in {SP, NL} THEN TrimRight(SubSeq(s, 1, Len(s) - 1)) ELSE s

Trim(s) == TrimRight(TrimLeft(s))

\* part.split("\n").find(line => line.startsWith("data:"))?.slice(5).trim();
\* <<>> stands for both undefined and the empty string (both are skipped).
RECURSIVE FindData(_)
FindData(lines) ==
  IF lines = <<>> THEN <<>>
  ELSE IF Head(lines) # <<>> /\ Head(Head(lines)) = DATA
       THEN Trim(Tail(Head(lines)))
       ELSE FindData(Tail(lines))

DataLine(part) == FindData(SplitOn(part, <<NL>>, <<>>))

\* JSON.parse succeeds exactly on one whole document.
ValidJson(dataLine) == Len(dataLine) = 1 /\ dataLine[1] \in JsonDocs

\* Number(value)
ToNumber(value) ==
  CASE value.kind \in {"num", "frac"} -> value
    [] value.kind = "numstr" -> Num(value.n)
    [] value.kind = "null" -> Num(0)
    [] OTHER -> NaN

\* value ?? 0
OrZero(value) == IF value.kind \in {"absent", "null"} THEN Num(0) ELSE value

\* parseUsage
ParseUsage(usage) ==
  [input_tokens |-> ToNumber(OrZero(usage.input_tokens)),
   cached_input_tokens |->
     ToNumber(OrZero(IF usage.details THEN usage.cached_tokens ELSE Absent)),
   output_tokens |-> ToNumber(OrZero(usage.output_tokens))]

\* ------------------------------------------------------------------ events
Ev(type, threadId, item, usage, message) ==
  [type |-> type, thread_id |-> threadId, item |-> item, usage |-> usage,
   message |-> message]

ThreadStarted(threadId) == Ev("thread.started", threadId, NoItem, NoUsage, "")
TurnStarted == Ev("turn.started", NoThread, NoItem, NoUsage, "")
ItemStarted(item) == Ev("item.started", NoThread, item, NoUsage, "")
ItemCompleted(item) == Ev("item.completed", NoThread, item, NoUsage, "")
TurnCompleted(usage) == Ev("turn.completed", NoThread, NoItem, usage, "")
TurnFailed(message) == Ev("turn.failed", NoThread, NoItem, NoUsage, message)

MsgStatus == "request failed with status"
MsgStatusUnread == "request failed with status: unexpected error while reading response body"
MsgNoBody == "stream disconnected before completion: missing response body"
MsgUpstream == "stream disconnected before completion: rate limit exceeded"
MsgIncomplete == "stream disconnected before completion: missing completion event"

\* Mutant of ItemId: the counter is not used.
ItemIdFixed(n) == "item_0"

\* `item_${assistantCount}`
ItemId(n) == "item_" \o ToString(n)
FreshThreadId(n) == "thread_" \o ToString(n)

\* ------------------------------------------------------------------- state
VARIABLES
  histories,   \* CodexExec.histories: Map<string, ConversationMessage[]>
  runs,        \* the generators, one per slot
  uuids,       \* how many thread ids randomUUID has produced
  calls,       \* calls of run() so far
  reads,       \* pieces of output delivered so far
  transcript,  \* per thread, what the consumers of its finished turns saw
  sse,         \* one parseSse generator fed a stream of its own, chunk by chunk
  usageCall,   \* one call of parseUsage: its argument and its result
  bodyCall,    \* one request body: the turn options and the body built from them
  arrayOf      \* per thread, which array object CodexExec.histories holds for it

vars ==
  <<histories, runs, uuids, calls, reads, transcript, sse, usageCall, bodyCall, arrayOf>>

Msg(role, text) == [role |-> role, text |-> text]

HistoryGet(map, threadId) == IF threadId \in DOMAIN map THEN map[threadId] ELSE <<>>

HistorySet(map, threadId, list) ==
  [t \in DOMAIN map \cup {threadId} |-> IF t = threadId THEN list ELSE map[t]]

IdleRun ==
  [pc |-> "idle", transport |-> "none",
   input |-> "", argThread |-> NoThread, hasSignal |-> FALSE, aborted |-> FALSE,
   baseUrl |-> FALSE, workingDirectory |-> "none", skipGitRepoCheck |-> FALSE,
   call |-> 0, threadId |-> NoThread, history |-> <<>>, historyRef |-> "",
   request |-> <<>>, respKind |-> "none", updatedHistory |-> <<>>, updatedRef |-> "", buffer |-> <<>>, parts |-> <<>>, item |-> NoItem,
   itemType |-> "", decoded |-> <<>>, assistantCount |-> 0, completed |-> FALSE, failed |-> FALSE,
   out |-> <<>>, err |-> "none",
   spawned |-> FALSE, running |-> FALSE, killed |-> FALSE, spawnError |-> "none",
   stderr |-> <<>>, rl |-> "none", exitListener |-> FALSE, missedExit |-> FALSE,
   exited |-> FALSE, exitCode |-> 0, errCode |-> 0, errStderr |-> <<>>]

Yields == {"y_thread", "y_turn", "y_failed", "y_istart", "y_idone", "y_completed",
           "y_error", "y_missing", "p_yline"}
Terminal == {"done", "raised", "abandoned"}

Raise(rec, err) == [rec EXCEPT !.pc = "raised", !.err = err]
Yield(rec, ev, pc) == [rec EXCEPT !.pc = pc, !.out = Append(@, ev)]

\* ---------------------------------------------------------------- runHttp
\* Mutant of BuildInput: every replayed entry is tagged as user input.
BuildInputUntagged(history, input) ==
  [i \in 1..Len(history) |->
     [role |-> history[i].role, type |-> "input_text", text |-> history[i].text]]
  \o <<[role |-> "user", type |-> "input_text", text |-> input]>>

\* The request body's "input": the stored messages, then the new user turn.
BuildInput(history, input) ==
  [i \in 1..Len(history) |->
     [role |-> history[i].role,
      type |-> IF history[i].role = "assistant" THEN "output_text" ELSE "input_text",
      text |-> history[i].text]]
  \o <<[role |-> "user", type |-> "input_text", text |-> input]>>

\* Mutant of ResolveThreadId: the caller's thread id is ignored.
ResolveThreadIdFresh(rec) == FreshThreadId(uuids + 1)

\* args.threadId ?? `thread_${randomUUID()}`
ResolveThreadId(rec) ==
  IF rec.argThread # NoThread THEN rec.argThread ELSE FreshThreadId(uuids + 1)

UuidsAfter(rec) == IF rec.argThread # NoThread THEN uuids ELSE uuids + 1

\* Mutant of ReadHistory: one history for all threads.
ReadHistoryOfFirst(threadId) == HistoryGet(histories, "tA")

\* this.histories.get(threadId) ?? []
ReadHistory(threadId) == HistoryGet(histories, threadId)

\* The array object a run creates: a literal or the result of a spread.
NewArray(rec, name) == name \o "_" \o ToString(rec.call)

\* The array object ReadHistory returns: the stored one, or a new empty one.
ReadHistoryRef(rec, threadId) ==
  IF threadId \in DOMAIN arrayOf THEN arrayOf[threadId] ELSE NewArray(rec, "empty")

\* Mutant of PendingRef: the messages are pushed onto the array that was read.
PendingRefShared(rec) == rec.historyRef

\* updatedHistory is the array the spread [...history, message] creates.
PendingRef(rec) == NewArray(rec, "updated")

\* From the thread id to the fetch call: the generator now awaits the response.
Prepared(rec) ==
  LET threadId == ResolveThreadId(rec)
      history == ReadHistory(threadId)
  IN [rec EXCEPT !.threadId = threadId, !.history = history,
                 !.historyRef = ReadHistoryRef(rec, threadId),
                 !.request = BuildInput(history, rec.input), !.pc = "fetch"]

\* The first statements of runHttp, up to its first await.
EnterHttp(rec) ==
  IF rec.hasSignal /\ rec.aborted THEN Raise(rec, "cancel")
  ELSE IF rec.hasSignal THEN [rec EXCEPT !.pc = "timer"]
  ELSE Prepared(rec)

\* Mutant of InitialUpdatedHistory: the spread takes the list stored now.
InitialUpdatedHistoryReread(rec) ==
  Append(HistoryGet(histories, rec.threadId), Msg("user", rec.input))

\* const updatedHistory = [...history, { role: "user", text: args.input }]
InitialUpdatedHistory(rec) == Append(rec.history, Msg("user", rec.input))

\* The head of parseSse's loop: the abort check, then reader.read().
LoopTop(rec) ==
  IF rec.hasSignal /\ rec.aborted THEN Raise(rec, "cancel") ELSE [rec EXCEPT !.pc = "read"]

\* Between the yields of item.started and item.completed.
CompleteItem(rec) ==
  IF rec.hasSignal /\ rec.itemType = "function_call" THEN Raise(rec, "cancel")
  ELSE Yield(rec, ItemCompleted(rec.item), "y_idone")

\* The next part parseSse turns into an event: parts with no data line (or an
\* empty one) are skipped, and JSON.parse throws on anything but a document.
RECURSIVE SseNext(_)
SseNext(parts) ==
  IF parts = <<>> THEN [kind |-> "none", doc |-> "", rest |-> <<>>]
  ELSE LET dataLine == DataLine(Head(parts)) IN
       IF dataLine = <<>> THEN SseNext(Tail(parts))
       ELSE IF ~ValidJson(dataLine) THEN [kind |-> "throw", doc |-> "", rest |-> <<>>]
       ELSE [kind |-> "event", doc |-> dataLine[1], rest |-> Tail(parts)]

\* The body of runHttp's for-await loop for one event, up to its first yield.
RECURSIVE Consume(_)
HandleEvent(rec, event) ==
  CASE event.type = "response.output_item.done" ->
         LET threadItem == [id |-> ItemId(rec.assistantCount), type |-> "agent_message",
                            text |-> event.text]
             pushed == [rec EXCEPT !.updatedHistory = Append(@, Msg("assistant", event.text)),
                                   !.item = threadItem, !.itemType = event.itemType]
         IN IF rec.hasSignal
            THEN Yield(pushed, ItemStarted(threadItem), "y_istart")
            ELSE CompleteItem(pushed)
    [] event.type = "response.completed" ->
         Yield(rec, TurnCompleted(ParseUsage(event.usage)), "y_completed")
    [] event.type = "error" ->
         Yield(rec, TurnFailed(MsgUpstream), "y_error")
    [] OTHER -> Consume(rec)

\* Runs the two loops from the pending parts to the next suspension point.
Consume(rec) ==
  LET nx == SseNext(rec.parts) IN
  CASE nx.kind = "none" -> LoopTop([rec EXCEPT !.parts = <<>>])
    [] nx.kind = "throw" -> Raise([rec EXCEPT !.parts = <<>>], "syntax")
    [] OTHER -> HandleEvent([rec EXCEPT !.parts = nx.rest, !.decoded = Append(@, nx.doc)],
                            EventOf(nx.doc))

\* Mutant of Commit: the history is stored whether or not the turn completed.
CommitAlways(rec) == HistorySet(histories, rec.threadId, rec.updatedHistory)

\* if (completed) this.histories.set(threadId, updatedHistory)
Commit(rec) ==
  IF rec.completed THEN HistorySet(histories, rec.threadId, rec.updatedHistory)
  ELSE histories

\* The array the map holds for the thread after the commit.
CommitRef(rec) ==
  IF rec.completed THEN HistorySet(arrayOf, rec.threadId, rec.updatedRef) ELSE arrayOf

\* Mutant of AfterLoop: a stream without a completion event ends silently.
AfterLoopSilent(rec) == [rec EXCEPT !.pc = "done"]

\* The code after the for-await loop.
AfterLoop(rec) ==
  IF ~rec.completed /\ ~rec.failed
  THEN Yield(rec, TurnFailed(MsgIncomplete), "y_missing")
  ELSE [rec EXCEPT !.pc = "done"]

\* ------------------------------------------------------- process transport
ChildKinds == {"ok", "nostdin", "nostdout", "enoent"}
ExitCodes == {0, 1}
KilledCode == -1   \* the exit event's code is null when a signal ended the child

\* child.kill(): the signal is sent, and child.killed set, if the child runs.
Kill(rec) == IF rec.running THEN [rec EXCEPT !.killed = TRUE] ELSE rec

\* Mutant of Finally: the reader is closed, the child is left alone.
FinallyKeepsChild(rec) == [rec EXCEPT !.rl = "closed", !.exitListener = FALSE]

\* The finally block: rl.close(), removeAllListeners(), kill unless killed.
Finally(rec) ==
  LET closed == [rec EXCEPT !.rl = "closed", !.exitListener = FALSE]
  IN IF closed.killed THEN closed ELSE Kill(closed)

\* spawn() and the code up to the first await of the line loop.  A spawn that
\* fails, and a signal aborted before the call, emit "error" on the next
\* tick, before any output is read.
EnterProcess(rec, childKind) ==
  LET child == [rec EXCEPT !.transport = "process", !.spawned = TRUE,
                           !.running = childKind # "enoent"]
      started == IF child.hasSignal /\ child.aborted /\ child.running
                 THEN [Kill(child) EXCEPT !.spawnError = "AbortError"]
                 ELSE IF childKind = "enoent" THEN [child EXCEPT !.spawnError = "ENOENT"]
                 ELSE child
  IN CASE childKind = "nostdin" -> Raise(Kill(child), "nostdin")
       [] childKind = "nostdout" -> Raise(Kill(child), "nostdout")
       [] OTHER -> [started EXCEPT !.rl = "open", !.pc = "p_read"]

\* The end of the line loop: the exit listener is registered, a recorded
\* spawn error is thrown, and otherwise the run awaits the exit.
AfterLines(rec) ==
  IF rec.spawnError # "none"
  THEN Finally(Raise(rec, IF rec.spawnError = "AbortError" THEN "cancel" ELSE "spawn"))
  ELSE [rec EXCEPT !.pc = "p_wait", !.exitListener = TRUE, !.missedExit = ~rec.running]

\* The exit listener: resolve on code 0, reject with the code and stderr.
OnExit(rec, code) ==
  IF code = 0 THEN Finally([rec EXCEPT !.pc = "done"])
  ELSE Finally([Raise(rec, "exit") EXCEPT !.errCode = code, !.errStderr = rec.stderr])

\* --------------------------------------------------------------------- run
\* The text of the caller's k-th turn.
InputOf(k) == "q" \o ToString(k)
CallerIds == {"tA"}
WorkDirs == {"none", "repo", "plain"}

\* fs.existsSync(path.join(workingDirectory, ".git"))
HasGitDir(workingDirectory) == workingDirectory = "repo"

\* Mutant of Untrusted: the working directory is never checked.
UntrustedNever(workingDirectory, skipGitRepoCheck) == FALSE

\* The trust check at the head of run().
Untrusted(workingDirectory, skipGitRepoCheck) ==
  workingDirectory # "none" /\ ~skipGitRepoCheck /\ ~HasGitDir(workingDirectory)

\* The thread ids a caller can know: its own, and those a run announced.
KnownIds ==
  CallerIds \cup DOMAIN histories
  \cup {runs[s].out[1].thread_id :
          s \in {t \in Slots : runs[t].transport = "http" /\ runs[t].out # <<>>}}

Active(s) == runs[s].pc \notin Terminal \cup {"idle"}

\* Mutant of Dispatch: the subprocess is spawned whatever the arguments.
DispatchProcess(rec, baseUrl, childKind) == EnterProcess(rec, childKind)

\* if (args.baseUrl) { yield* this.runHttp(args); return; }
Dispatch(rec, baseUrl, childKind) ==
  IF baseUrl THEN EnterHttp([rec EXCEPT !.transport = "http"])
  ELSE EnterProcess(rec, childKind)

\* run(args) and the consumer's first pull.
\* args: the CodexExecArgs; childKind: what spawn() would return.
Call(s, args, childKind) ==
  /\ ~Active(s)
  /\ calls < MaxCalls
  /\ LET rec == [IdleRun EXCEPT !.call = calls + 1,
                                !.input = args.input, !.argThread = args.threadId,
                                !.hasSignal = args.hasSignal, !.aborted = args.aborted,
                                !.baseUrl = args.baseUrl,
                                !.workingDirectory = args.workingDirectory,
                                !.skipGitRepoCheck = args.skipGitRepoCheck]
         next == IF Untrusted(args.workingDirectory, args.skipGitRepoCheck)
                 THEN Raise(rec, "untrusted")
                 ELSE Dispatch(rec, args.baseUrl, childKind)
     IN /\ runs' = [runs EXCEPT ![s] = next]
        /\ uuids' = IF next.pc = "fetch" THEN UuidsAfter(rec) ELSE uuids
  /\ calls' = calls + 1
  /\ UNCHANGED <<histories, reads, transcript, sse, usageCall, bodyCall, arrayOf>>

\* The 20 ms timer of runHttp fires.
TimerFires(s) ==
  /\ runs[s].pc = "timer"
  /\ runs' = [runs EXCEPT ![s] = Prepared(runs[s])]
  /\ uuids' = UuidsAfter(runs[s])
  /\ UNCHANGED <<histories, calls, reads, transcript, sse, usageCall, bodyCall, arrayOf>>

\* fetch resolves: status and body as the server sent them.
FetchResolves(s, respKind) ==
  /\ runs[s].pc = "fetch"
  /\ runs' = [runs EXCEPT ![s] =
       Yield([runs[s] EXCEPT !.respKind = respKind,
                             !.updatedHistory = InitialUpdatedHistory(runs[s]),
                             !.updatedRef = PendingRef(runs[s])],
             ThreadStarted(runs[s].threadId), "y_thread")]
  /\ UNCHANGED <<histories, uuids, calls, reads, transcript, sse, usageCall, bodyCall, arrayOf>>

\* fetch rejects: the request never got an answer.
FetchRejects(s) ==
  /\ runs[s].pc = "fetch"
  /\ runs' = [runs EXCEPT ![s] = Raise(runs[s], "network")]
  /\ UNCHANGED <<histories, uuids, calls, reads, transcript, sse, usageCall, bodyCall, arrayOf>>

\* response.text() resolves.
TextResolves(s) ==
  /\ runs[s].pc = "text"
  /\ runs' = [runs EXCEPT ![s] = Yield(runs[s], TurnFailed(MsgStatus), "y_failed")]
  /\ UNCHANGED <<histories, uuids, calls, reads, transcript, sse, usageCall, bodyCall, arrayOf>>

\* Mutant of CheckResponse: the missing body is not checked.
CheckResponseNoBody(rec) ==
  IF rec.respKind = "bad" THEN [rec EXCEPT !.pc = "text"] ELSE LoopTop(rec)

\* if (!response.ok) ... if (!response.body) ... else the loop over parseSse.
CheckResponse(rec) ==
  IF rec.respKind = "bad" THEN [rec EXCEPT !.pc = "text"]
  ELSE IF rec.respKind = "nobody" THEN Yield(rec, TurnFailed(MsgNoBody), "y_failed")
  ELSE LoopTop(rec)

\* What the generator does when the consumer pulls it at a yield.
Resume(rec) ==
  CASE rec.pc = "y_thread" -> Yield(rec, TurnStarted, "y_turn")
    [] rec.pc = "y_turn" -> CheckResponse(rec)
    [] rec.pc = "y_failed" -> [rec EXCEPT !.pc = "done"]
    [] rec.pc = "y_istart" -> CompleteItem(rec)
    [] rec.pc = "y_idone" -> Consume([rec EXCEPT !.assistantCount = @ + 1])
    [] rec.pc = "y_completed" -> Consume([rec EXCEPT !.completed = TRUE])
    [] rec.pc = "y_error" -> Consume([rec EXCEPT !.failed = TRUE])
    [] rec.pc = "p_yline" -> [rec EXCEPT !.pc = "p_read"]
    [] OTHER -> [rec EXCEPT !.pc = "done"]

\* What the consumer of a finished turn has seen: its own input and the texts
\* of the item.completed events, recorded when a run that delivered
\* turn.completed returns.
Seen(rec) ==
  LET items == SelectSeq(rec.out, LAMBDA e : e.type = "item.completed")
  IN <<Msg("user", rec.input)>>
     \o [i \in 1..Len(items) |-> Msg("assistant", items[i].item.text)]

Observe(rec) ==
  IF rec.transport = "http" /\ rec.pc = "done"
     /\ \E i \in 1..Len(rec.out) : rec.out[i].type = "turn.completed"
  THEN HistorySet(transcript, rec.threadId,
                  HistoryGet(transcript, rec.threadId) \o Seen(rec))
  ELSE transcript

\* The consumer pulls the next event.
Pull(s) ==
  /\ runs[s].pc \in Yields
  /\ runs' = [runs EXCEPT ![s] = Resume(runs[s])]
  /\ histories' = IF runs[s].pc = "y_missing" THEN Commit(runs[s]) ELSE histories
  /\ arrayOf' = IF runs[s].pc = "y_missing" THEN CommitRef(runs[s]) ELSE arrayOf
  /\ transcript' = Observe(Resume(runs[s]))
  /\ UNCHANGED <<uuids, calls, reads, sse, usageCall, bodyCall>>

\* The consumer stops iterating: the generator is returned at its yield.
Abandon(s) ==
  /\ runs[s].pc \in Yields
  /\ runs' = [runs EXCEPT ![s] =
       IF runs[s].pc = "p_yline" THEN Finally([runs[s] EXCEPT !.pc = "abandoned"])
       ELSE [runs[s] EXCEPT !.pc = "abandoned"]]
  /\ UNCHANGED <<histories, uuids, calls, reads, transcript, sse, usageCall, bodyCall, arrayOf>>

Frame(doc) == <<DATA, doc, NL, NL>>

\* The chunks a server sends: whole events; a keep-alive comment, an event of
\* another type, an item and a second item cut inside its delimiter; the rest
\* of a delimiter and one more event; a data line that is no JSON document.
Chunks ==
  {Frame("item:a1"), Frame("item:fn"), Frame("completed"), Frame("error"),
   <<COLON, NL, NL>> \o Frame("created") \o Frame("item:a1")
     \o <<DATA, SP, "item:a2", NL>>,
   <<NL>> \o Frame("completed"),
   <<DATA, "item:a1", "error", NL, NL>>}

\* Mutant of Remainder: the text after the last delimiter is thrown away.
RemainderDropped(pieces) == <<>>

\* buffer = parts.pop() ?? ""
Remainder(pieces) == pieces[Len(pieces)]

\* reader.read() resolves with a chunk.
ReadChunk(s, chunk) ==
  /\ runs[s].pc = "read"
  /\ reads < MaxReads
  /\ LET pieces == SplitOn(runs[s].buffer \o chunk, <<NL, NL>>, <<>>)
     IN runs' = [runs EXCEPT ![s] =
          Consume([runs[s] EXCEPT !.buffer = Remainder(pieces),
                                  !.parts = SubSeq(pieces, 1, Len(pieces) - 1)])]
  /\ reads' = reads + 1
  /\ UNCHANGED <<histories, uuids, calls, transcript, sse, usageCall, bodyCall, arrayOf>>

\* reader.read() resolves with done: the loops end and the run finishes.
ReadDone(s) ==
  /\ runs[s].pc = "read"
  /\ runs' = [runs EXCEPT ![s] = AfterLoop(runs[s])]
  /\ histories' = IF AfterLoop(runs[s]).pc = "done" THEN Commit(runs[s]) ELSE histories
  /\ arrayOf' = IF AfterLoop(runs[s]).pc = "done" THEN CommitRef(runs[s]) ELSE arrayOf
  /\ transcript' = Observe(AfterLoop(runs[s]))
  /\ UNCHANGED <<uuids, calls, reads, sse, usageCall, bodyCall>>

\* reader.read() rejects: the connection broke.
ReadFails(s) ==
  /\ runs[s].pc = "read"
  /\ runs' = [runs EXCEPT ![s] = Raise(runs[s], "network")]
  /\ UNCHANGED <<histories, uuids, calls, reads, transcript, sse, usageCall, bodyCall, arrayOf>>

\* The caller aborts the signal it passed.
Abort(s) ==
  /\ Active(s)
  /\ runs[s].hasSignal /\ ~runs[s].aborted
  /\ LET rec == [runs[s] EXCEPT !.aborted = TRUE] IN
     runs' = [runs EXCEPT ![s] =
       CASE rec.pc \in {"timer", "fetch", "read"} -> Raise(rec, "cancel")
         [] rec.pc = "text" -> Yield(rec, TurnFailed(MsgStatusUnread), "y_failed")
         [] rec.transport = "process" /\ rec.running ->
              [Kill(rec) EXCEPT !.spawnError = IF @ = "none" THEN "AbortError" ELSE @]
         [] OTHER -> rec]
  /\ UNCHANGED <<histories, uuids, calls, reads, transcript, sse, usageCall, bodyCall, arrayOf>>

\* The k-th line a subprocess writes: an event in the normalized vocabulary.
LineOf(k) == ItemCompleted([id |-> ItemId(k), type |-> "agent_message", text |-> "line"])

\* readline hands the next stdout line to the line loop, which yields it.
ProcLine(s) ==
  /\ runs[s].pc = "p_read"
  /\ runs[s].spawnError # "ENOENT"
  /\ reads < MaxReads
  /\ runs' = [runs EXCEPT ![s] = Yield(runs[s], LineOf(Len(runs[s].out)), "p_yline")]
  /\ reads' = reads + 1
  /\ UNCHANGED <<histories, uuids, calls, transcript, sse, usageCall, bodyCall, arrayOf>>

\* The subprocess writes to stderr.
ProcStderr(s) ==
  /\ runs[s].transport = "process" /\ Active(s)
  /\ runs[s].running
  /\ reads < MaxReads
  /\ runs' = [runs EXCEPT ![s].stderr = Append(@, "boom")]
  /\ reads' = reads + 1
  /\ UNCHANGED <<histories, uuids, calls, transcript, sse, usageCall, bodyCall, arrayOf>>

\* stdout ends: the line loop is over.
ProcStdoutEnd(s) ==
  /\ runs[s].pc = "p_read"
  /\ runs' = [runs EXCEPT ![s] = AfterLines(runs[s])]
  /\ UNCHANGED <<histories, uuids, calls, reads, transcript, sse, usageCall, bodyCall, arrayOf>>

\* The subprocess exits and the child emits "exit".
ProcExit(s, code) ==
  /\ runs[s].transport = "process" /\ Active(s)
  /\ runs[s].running
  /\ (code = KilledCode) = runs[s].killed
  /\ LET rec == [runs[s] EXCEPT !.running = FALSE, !.exited = TRUE, !.exitCode = code] IN
     runs' = [runs EXCEPT ![s] = IF rec.exitListener THEN OnExit(rec, code) ELSE rec]
  /\ UNCHANGED <<histories, uuids, calls, reads, transcript, sse, usageCall, bodyCall, arrayOf>>

\* cut: some chunk ended inside an event, whose text then waited in the buffer.
IdleSse ==
  [stream |-> <<>>, rest |-> <<>>, buffer |-> <<>>, events |-> <<>>, cut |-> FALSE,
   done |-> FALSE]

\* ------------------------------------------------------------ turn options
\* An option that was not given.
Undefined == "undefined"

\* A value with its type: a string, a boolean ("true", "false") or a list.
Val(type, v) == [type |-> type, v |-> v]

NoOptions ==
  [model |-> Undefined, sandboxMode |-> Undefined, workingDirectory |-> Undefined,
   additionalDirectories |-> <<>>, outputSchemaFile |-> Undefined,
   modelReasoningEffort |-> Undefined, networkAccessEnabled |-> Undefined,
   webSearchEnabled |-> Undefined, approvalPolicy |-> Undefined, images |-> <<>>]

Arg(flag, key, value) == [flag |-> flag, key |-> key, value |-> value]
IfGiven(option, entries) == IF option # Undefined THEN entries ELSE <<>>

\* commandArgs of run(), after "exec --experimental-json": flag, for --config
\* the key of the override, and the value.  An empty list stands for a list
\* option that is undefined or empty.
CommandArgs(args) ==
  IfGiven(args.model, <<Arg("--model", "", Val("string", <<args.model>>))>>)
  \o IfGiven(args.sandboxMode, <<Arg("--sandbox", "", Val("string", <<args.sandboxMode>>))>>)
  \o IfGiven(args.workingDirectory,
             <<Arg("--cd", "", Val("string", <<args.workingDirectory>>))>>)
  \o [i \in 1..Len(args.additionalDirectories) |->
        Arg("--add-dir", "", Val("string", <<args.additionalDirectories[i]>>))]
  \o IfGiven(args.outputSchemaFile,
             <<Arg("--output-schema", "", Val("string", <<args.outputSchemaFile>>))>>)
  \o IfGiven(args.modelReasoningEffort,
             <<Arg("--config", "model_reasoning_effort",
                   Val("string", <<args.modelReasoningEffort>>))>>)
  \o IfGiven(args.networkAccessEnabled,
             <<Arg("--config", "sandbox_workspace_write.network_access",
                   Val("bool", <<args.networkAccessEnabled>>))>>)
  \o IfGiven(args.webSearchEnabled,
             <<Arg("--config", "features.web_search_request",
                   Val("bool", <<args.webSearchEnabled>>))>>)
  \o IfGiven(args.approvalPolicy,
             <<Arg("--config", "approval_policy", Val("string", <<args.approvalPolicy>>))>>)
  \o [i \in 1..Len(args.images) |-> Arg("--image", "", Val("string", <<args.images[i]>>))]

Member(key, value) == [key |-> key, value |-> value]
SetIfGiven(option, members) == IF option # Undefined THEN members ELSE {}

\* Mutant of Config: the boolean options are tested for truth, not presence.
ConfigTruthy(args) ==
  SetIfGiven(args.sandboxMode, {Member("sandbox", Val("string", <<args.sandboxMode>>))})
  \cup SetIfGiven(args.modelReasoningEffort,
                  {Member("model_reasoning_effort",
                          Val("string", <<args.modelReasoningEffort>>))})
  \cup (IF args.networkAccessEnabled = "true"
        THEN {Member("sandbox_workspace_write.network_access", Val("bool", <<"true">>))}
        ELSE {})
  \cup (IF args.webSearchEnabled = "true"
        THEN {Member("features.web_search_request", Val("bool", <<"true">>))}
        ELSE {})
  \cup SetIfGiven(args.approvalPolicy,
                  {Member("approval_policy", Val("string", <<args.approvalPolicy>>))})
  \cup (IF args.additionalDirectories # <<>>
        THEN {Member("additional_directories", Val("list", args.additionalDirectories))}
        ELSE {})
  \cup SetIfGiven(args.workingDirectory,
                  {Member("working_directory", Val("string", <<args.workingDirectory>>))})

\* The config object of runHttp, its nested members under their dotted names.
Config(args) ==
  SetIfGiven(args.sandboxMode, {Member("sandbox", Val("string", <<args.sandboxMode>>))})
  \cup SetIfGiven(args.modelReasoningEffort,
                  {Member("model_reasoning_effort",
                          Val("string", <<args.modelReasoningEffort>>))})
  \cup SetIfGiven(args.networkAccessEnabled,
                  {Member("sandbox_workspace_write.network_access",
                          Val("bool", <<args.networkAccessEnabled>>))})
  \cup SetIfGiven(args.webSearchEnabled,
                  {Member("features.web_search_request",
                          Val("bool", <<args.webSearchEnabled>>))})
  \cup SetIfGiven(args.approvalPolicy,
                  {Member("approval_policy", Val("string", <<args.approvalPolicy>>))})
  \cup (IF args.additionalDirectories # <<>>
        THEN {Member("additional_directories", Val("list", args.additionalDirectories))}
        ELSE {})
  \cup SetIfGiven(args.workingDirectory,
                  {Member("working_directory", Val("string", <<args.workingDirectory>>))})

\* args.outputSchemaFile && fs.existsSync(args.outputSchemaFile)
SchemaFiles == {"schema.json", "missing.json"}
SchemaExists(file) == file = "schema.json"

\* The body of the request without its input: the top-level members other
\* than config, and the config object, which is a member only when not empty.
Body(args) ==
  [top |-> SetIfGiven(args.model, {Member("model", Val("string", <<args.model>>))})
           \cup (IF SchemaExists(args.outputSchemaFile)
                 THEN {Member("text.format", Val("string", <<args.outputSchemaFile>>))}
                 ELSE {})
           \cup (IF args.images # <<>> THEN {Member("images", Val("list", args.images))}
                 ELSE {}),
   config |-> Config(args),
   hasConfig |-> Config(args) # {}]

IdleBodyCall == [args |-> NoOptions, body |-> Body(NoOptions), built |-> FALSE]

IdleUsageCall == [usage |-> NoUpstreamUsage, result |-> NoUsage, returned |-> FALSE]

Init ==
  /\ histories = [t \in {} |-> <<>>]
  /\ runs = [s \in Slots |-> IdleRun]
  /\ uuids = 0
  /\ calls = 0
  /\ reads = 0
  /\ transcript = [t \in {} |-> <<>>]
  /\ sse = IdleSse
  /\ usageCall = IdleUsageCall
  /\ bodyCall = IdleBodyCall
  /\ arrayOf = [t \in {} |-> ""]

\* The caller starts its next turn once the previous one is over.  The working
\* directory options are tried with the other options at their defaults.
NextTurn ==
  \E s \in Slots, input \in {InputOf(calls + 1)}, argThread \in KnownIds \cup {NoThread},
     hasSignal \in BOOLEAN, aborted \in BOOLEAN, baseUrl \in BOOLEAN,
     workingDirectory \in WorkDirs, skipGitRepoCheck \in BOOLEAN,
     childKind \in ChildKinds :
    /\ aborted => hasSignal
    /\ skipGitRepoCheck => workingDirectory = "plain"
    /\ workingDirectory # "none" => ~hasSignal /\ argThread = NoThread
    /\ \A t \in Slots : ~Active(t) /\ s <= t
    /\ baseUrl \/ Untrusted(workingDirectory, skipGitRepoCheck) => childKind = "ok"
    /\ Call(s, [input |-> input, threadId |-> argThread, hasSignal |-> hasSignal,
                aborted |-> aborted, baseUrl |-> baseUrl,
                workingDirectory |-> workingDirectory,
                skipGitRepoCheck |-> skipGitRepoCheck], childKind)

Next ==
  \/ NextTurn
  \/ \E s \in Slots : TimerFires(s)
  \/ \E s \in Slots, respKind \in {"ok", "bad", "nobody"} : FetchResolves(s, respKind)
  \/ \E s \in Slots : FetchRejects(s)
  \/ \E s \in Slots : TextResolves(s)
  \/ \E s \in Slots : Pull(s)
  \/ \E s \in Slots : Abandon(s)
  \/ \E s \in Slots, chunk \in Chunks : ReadChunk(s, chunk)
  \/ \E s \in Slots : ReadDone(s)
  \/ \E s \in Slots : ReadFails(s)
  \/ \E s \in Slots : Abort(s)
  \/ \E s \in Slots : ProcLine(s)
  \/ \E s \in Slots : ProcStderr(s)
  \/ \E s \in Slots : ProcStdoutEnd(s)
  \/ \E s \in Slots, code \in ExitCodes \cup {KilledCode} : ProcExit(s, code)

Spec == Init /\ [][Next]_vars

\* ------------------------------------------------------- overlapping turns
\* Callers that do not wait for one another: HTTP turns on one thread, started
\* while another run is in flight, against a server that answers every request
\* with a stream of messages and completions.
ConcChunks == {Frame("item:a1"), Frame("completed")}

ConcTurn ==
  \E s \in Slots, argThread \in CallerIds :
    Call(s, [input |-> InputOf(calls + 1), threadId |-> argThread, hasSignal |-> FALSE,
             aborted |-> FALSE, baseUrl |-> TRUE, workingDirectory |-> "none",
             skipGitRepoCheck |-> FALSE], "ok")

ConcNext ==
  \/ ConcTurn
  \/ \E s \in Slots : FetchResolves(s, "ok")
  \/ \E s \in Slots : Pull(s)
  \/ \E s \in Slots, chunk \in ConcChunks : ReadChunk(s, chunk)
  \/ \E s \in Slots : ReadDone(s)

ConcSpec == Init /\ [][ConcNext]_vars

\* Callers of different threads that do not wait for one another: the runs of
\* a slot are the turns of one thread, one after the other.
ThreadOfSlot(s) == IF s = 1 THEN "tA" ELSE "tB"

IsoTurn ==
  \E s \in Slots :
    Call(s, [input |-> InputOf(calls + 1), threadId |-> ThreadOfSlot(s),
             hasSignal |-> FALSE, aborted |-> FALSE, baseUrl |-> TRUE,
             workingDirectory |-> "none", skipGitRepoCheck |-> FALSE], "ok")

IsoNext ==
  \/ IsoTurn
  \/ \E s \in Slots : FetchResolves(s, "ok")
  \/ \E s \in Slots : Pull(s)
  \/ \E s \in Slots, chunk \in ConcChunks : ReadChunk(s, chunk)
  \/ \E s \in Slots : ReadDone(s)

IsoSpec == Init /\ [][IsoNext]_vars

\* ------------------------------------------- the process transport, scheduled
\* Process runs, one after the other, of a consumer that keeps pulling: it
\* never abandons a run, the end of stdout reaches the line loop, and a
\* subprocess that runs exits or is killed.
ProcTurn ==
  \E hasSignal \in BOOLEAN, childKind \in ChildKinds :
    Call(1, [input |-> InputOf(calls + 1), threadId |-> NoThread, hasSignal |-> hasSignal,
             aborted |-> FALSE, baseUrl |-> FALSE, workingDirectory |-> "none",
             skipGitRepoCheck |-> FALSE], childKind)

ProcNext ==
  \/ ProcTurn
  \/ \E s \in Slots : Pull(s)
  \/ \E s \in Slots : Abort(s)
  \/ \E s \in Slots : ProcLine(s)
  \/ \E s \in Slots : ProcStderr(s)
  \/ \E s \in Slots : ProcStdoutEnd(s)
  \/ \E s \in Slots, code \in ExitCodes \cup {KilledCode} : ProcExit(s, code)

ProcFair ==
  /\ \A s \in Slots : WF_vars(Pull(s))
  /\ \A s \in Slots : WF_vars(ProcStdoutEnd(s))
  /\ \A s \in Slots : WF_vars(\E code \in ExitCodes \cup {KilledCode} : ProcExit(s, code))

ProcSpec == Init /\ [][ProcNext]_vars /\ ProcFair

\* ----------------------------------------------------------- parseSse alone
MaxEvents == 3     \* events of a stream given to parseSse

\* The events parseSse yields for a list of parts, in order, up to a part whose
\* data line is no JSON document.
RECURSIVE DecodeParts(_)
DecodeParts(parts) ==
  LET nx == SseNext(parts) IN
  IF nx.kind = "event" THEN <<EventOf(nx.doc)>> \o DecodeParts(nx.rest) ELSE <<>>

\* One turn of parseSse's while loop on a chunk: the new buffer and the events.
ParseSseChunk(buffer, chunk) ==
  LET pieces == SplitOn(buffer \o chunk, <<NL, NL>>, <<>>)
  IN [buffer |-> Remainder(pieces),
      events |-> DecodeParts(SubSeq(pieces, 1, Len(pieces) - 1))]

\* Well-formed events, each ended by a blank line: a data line, a data line
\* with a space, a comment, a comment and a data line, an event of another
\* type followed by one more blank line.
SseFrames ==
  {Frame("item:a1"), <<DATA, SP, "completed", NL, NL>>, <<COLON, NL, NL>>,
   <<COLON, NL, DATA, "error", NL, NL>>, Frame("created") \o <<NL>>}

RECURSIVE Flatten(_)
Flatten(frames) == IF frames = <<>> THEN <<>> ELSE Head(frames) \o Flatten(Tail(frames))

SseStreams == UNION {{Flatten(f) : f \in [1..k -> SseFrames]} : k \in 1..MaxEvents}

\* No stream is longer: a frame has at most six characters.
MaxStreamLen == MaxEvents * 6

SseInit ==
  /\ histories = [t \in {} |-> <<>>]
  /\ runs = [s \in Slots |-> IdleRun]
  /\ uuids = 0
  /\ calls = 0
  /\ reads = 0
  /\ transcript = [t \in {} |-> <<>>]
  /\ \E stream \in SseStreams : sse = [IdleSse EXCEPT !.stream = stream, !.rest = stream]
  /\ usageCall = IdleUsageCall
  /\ bodyCall = IdleBodyCall
  /\ arrayOf = [t \in {} |-> ""]

\* reader.read() resolves with the next n characters of the stream.
SseRead(n) ==
  /\ ~sse.done
  /\ n \in 1..Len(sse.rest)
  /\ LET step == ParseSseChunk(sse.buffer, SubSeq(sse.rest, 1, n))
     IN sse' = [sse EXCEPT !.rest = SubSeq(@, n + 1, Len(@)), !.buffer = step.buffer,
                           !.events = @ \o step.events,
                           !.cut = @ \/ (step.buffer # <<>> /\ n < Len(sse.rest))]
  /\ UNCHANGED <<histories, runs, uuids, calls, reads, transcript, usageCall, bodyCall, arrayOf>>

\* Mutant of AtEnd: the text left in the buffer is decoded as a last part.
AtEndFlush(buffer) == DecodeParts(<<buffer>>)

\* if (done) break: the events parseSse yields when the stream ends.
AtEnd(buffer) == <<>>

\* reader.read() resolves with done: the stream is over, or the server closed
\* the connection before the rest of it was sent.
SseDone ==
  /\ ~sse.done
  /\ sse' = [sse EXCEPT !.done = TRUE, !.rest = <<>>,
                        !.stream = SubSeq(@, 1, Len(@) - Len(sse.rest)),
                        !.events = @ \o AtEnd(sse.buffer)]
  /\ UNCHANGED <<histories, runs, uuids, calls, reads, transcript, usageCall, bodyCall, arrayOf>>

SseStep ==
  \/ \E n \in 1..MaxStreamLen : SseRead(n)
  \/ SseDone

SseSpec == SseInit /\ [][SseStep]_vars

\* --------------------------------------------------------- parseUsage alone
\* The values an upstream can put where a token count is expected.
JsonValues == {Absent, Null, Num(0), Num(42), Num(-7), Frac(1), NumStr(12), Str}

\* The usage members of a response.completed event: none, or an object with
\* or without input_tokens_details.
Usages ==
  {NoUpstreamUsage}
  \cup {Usage(i, FALSE, Absent, o) : i \in JsonValues, o \in JsonValues}
  \cup {Usage(i, TRUE, c, o) : i \in JsonValues, c \in JsonValues, o \in JsonValues}

UsageInit ==
  /\ histories = [t \in {} |-> <<>>]
  /\ runs = [s \in Slots |-> IdleRun]
  /\ uuids = 0
  /\ calls = 0
  /\ reads = 0
  /\ transcript = [t \in {} |-> <<>>]
  /\ sse = IdleSse
  /\ \E usage \in Usages : usageCall = [IdleUsageCall EXCEPT !.usage = usage]
  /\ bodyCall = IdleBodyCall
  /\ arrayOf = [t \in {} |-> ""]

\* parseUsage(event.response?.usage) returns.
ParseUsageReturns ==
  /\ ~usageCall.returned
  /\ usageCall' = [usageCall EXCEPT !.result = ParseUsage(usageCall.usage), !.returned = TRUE]
  /\ UNCHANGED <<histories, runs, uuids, calls, reads, transcript, sse, bodyCall, arrayOf>>

UsageSpec == UsageInit /\ [][ParseUsageReturns]_vars

\* ------------------------------------------------------ request body alone
Given(values) == {Undefined} \cup values
Lists(values) == {<<>>} \cup {<<v>> : v \in values} \cup {<<v, w>> : v \in values, w \in values}

TurnOptions ==
  [model : Given({"gpt-test-1"}), sandboxMode : Given({"workspace-write"}),
   workingDirectory : Given({"/repo"}), additionalDirectories : Lists({"/extra"}),
   outputSchemaFile : Given(SchemaFiles), modelReasoningEffort : Given({"high"}),
   networkAccessEnabled : Given({"true", "false"}),
   webSearchEnabled : Given({"true", "false"}),
   approvalPolicy : Given({"on-request"}), images : Lists({"a.png"})]

BodyInit ==
  /\ histories = [t \in {} |-> <<>>]
  /\ runs = [s \in Slots |-> IdleRun]
  /\ uuids = 0
  /\ calls = 0
  /\ reads = 0
  /\ transcript = [t \in {} |-> <<>>]
  /\ sse = IdleSse
  /\ usageCall = IdleUsageCall
  /\ \E args \in TurnOptions : bodyCall = [IdleBodyCall EXCEPT !.args = args]
  /\ arrayOf = [t \in {} |-> ""]

\* runHttp has built the body of its request.
BodyBuilt ==
  /\ ~bodyCall.built
  /\ bodyCall' = [bodyCall EXCEPT !.body = Body(bodyCall.args), !.built = TRUE]
  /\ UNCHANGED <<histories, runs, uuids, calls, reads, transcript, sse, usageCall, arrayOf>>

BodySpec == BodyInit /\ [][BodyBuilt]_vars

\* ================================================================== claims
Http(s) == runs[s].transport = "http"
Types(out) == [i \in 1..Len(out) |-> out[i].type]
Yielded(rec, type) == \E i \in 1..Len(rec.out) : rec.out[i].type = type
IsTerminalEvent(ev) == ev.type \in {"turn.completed", "turn.failed"}

\* The assistant messages a run delivered, as conversation messages.
Delivered(rec) ==
  LET items == SelectSeq(rec.out, LAMBDA e : e.type = "item.completed")
  IN [i \in 1..Len(items) |-> Msg("assistant", items[i].item.text)]

\* C1: an HTTP run that yielded turn.failed or raised leaves the history of
\* its thread as it was before the run, whatever else its stream carried.
C1_FailedRunKeepsHistory ==
  \A s \in Slots :
    Http(s) /\ runs[s].pc \in Terminal
      /\ (Yielded(runs[s], "turn.failed") \/ runs[s].pc = "raised")
    => /\ HistoryGet(histories, runs[s].threadId) = runs[s].history
       /\ (runs[s].threadId \in DOMAIN histories => runs[s].history # <<>>)

\* C2: an HTTP run that delivered turn.completed has, once it is over, stored
\* the pre-call history, then the new user message, then the assistant messages
\* of the turn.
C2_CompletedRunCommits ==
  \A s \in Slots :
    Http(s) /\ runs[s].pc \in Terminal /\ Yielded(runs[s], "turn.completed")
    => HistoryGet(histories, runs[s].threadId)
         = runs[s].history \o <<Msg("user", runs[s].input)>> \o Delivered(runs[s])

\* C3: the history map changes only in the commit step of an HTTP run whose
\* stream produced a response-completion event; no other step adds, removes
\* or alters an entry.
C3_OnlyCommitChangesHistory ==
  [][histories' # histories =>
       \E s \in Slots :
         /\ Http(s)
         /\ runs[s].pc \in {"read", "y_missing"} /\ runs'[s].pc = "done"
         /\ runs[s].completed /\ Yielded(runs[s], "turn.completed")
         /\ histories' = HistorySet(histories, runs[s].threadId, runs[s].updatedHistory)]_vars

C3_Witness ==
  /\ \E s \in Slots : Http(s) /\ runs[s].pc = "done" /\ runs[s].completed
                      /\ runs[s].threadId \in DOMAIN histories
  /\ calls = MaxCalls

\* The request entries that replay a list of conversation messages.
Replayed(msgs) ==
  [i \in 1..Len(msgs) |->
     [role |-> msgs[i].role,
      type |-> IF msgs[i].role = "assistant" THEN "output_text" ELSE "input_text",
      text |-> msgs[i].text]]

\* C4: the request's input is the stored history of the thread, in order and
\* tagged by role, then the new user entry; and the stored history is what the
\* consumers of the thread's earlier completed turns saw, so every earlier
\* input and assistant text is replayed in conversation order.
C4_RequestReplaysHistory ==
  \A s \in Slots :
    Http(s) /\ runs[s].pc = "fetch"
    => LET stored == HistoryGet(histories, runs[s].threadId) IN
       /\ runs[s].request
            = Replayed(stored)
              \o <<[role |-> "user", type |-> "input_text", text |-> runs[s].input]>>
       /\ stored = HistoryGet(transcript, runs[s].threadId)

C4_Witness ==
  \E s \in Slots :
    /\ Http(s) /\ runs[s].pc = "fetch"
    /\ Len(runs[s].request) >= 3
    /\ \E i \in 1..Len(runs[s].request) : runs[s].request[i].type = "output_text"

\* C5: the id announced in thread.started is the caller's id when one was
\* given and a new one otherwise, the history the run replays is the one stored
\* under that id, and a committing run stores its history under that id.
C5_AnnouncedIdIsKey ==
  \A s \in Slots :
    Http(s) /\ runs[s].out # <<>>
    => LET id == runs[s].out[1].thread_id IN
       /\ runs[s].out[1].type = "thread.started"
       /\ runs[s].argThread # NoThread => id = runs[s].argThread
       /\ runs[s].argThread = NoThread =>
            /\ id \notin CallerIds \cup {NoThread}
            /\ runs[s].history = <<>>
            /\ runs[s].pc # "done" => id \notin DOMAIN histories
       /\ runs[s].pc # "done" => runs[s].history = HistoryGet(histories, id)
       /\ runs[s].pc = "done" /\ runs[s].completed =>
            id \in DOMAIN histories /\ histories[id] = runs[s].updatedHistory

C5_Witness ==
  \E s \in Slots :
    /\ Http(s) /\ runs[s].pc = "done" /\ runs[s].completed
    /\ runs[s].argThread \notin CallerIds \cup {NoThread}
    /\ runs[s].history # <<>>

\* C6: an HTTP run that finishes without raising ends with a terminal event,
\* and nothing is yielded after a turn.completed or turn.failed, so the run
\* holds one terminal event, its last.  (The process transport passes the
\* subprocess's lines through, so the statement is checked on the HTTP path.)
C6_TerminalEventIsLast ==
  \A s \in Slots :
    Http(s)
    => /\ runs[s].pc = "done" =>
            runs[s].out # <<>> /\ IsTerminalEvent(runs[s].out[Len(runs[s].out)])
       /\ \A i \in 1..(Len(runs[s].out) - 1) : ~IsTerminalEvent(runs[s].out[i])

\* C7: an HTTP run raises only for cancellation; every other failure of the
\* HTTP path is a turn.failed event in a run that ends without raising.
C7_HttpRaisesOnlyOnCancel ==
  \A s \in Slots :
    Http(s) /\ runs[s].pc = "raised" => runs[s].err = "cancel" /\ runs[s].aborted

IsPrefix(a, b) == Len(a) <= Len(b) /\ a = SubSeq(b, 1, Len(a))

\* C8: a non-success status, or a missing body, gives thread.started,
\* turn.started and one turn.failed naming the status or the missing body; the
\* run then ends without raising and without committing history.
C8_BadResponseFails ==
  \A s \in Slots :
    Http(s) /\ runs[s].respKind \in {"bad", "nobody"}
    => /\ runs[s].pc \in {"y_thread", "y_turn", "text", "y_failed", "done", "abandoned"}
       /\ IsPrefix(Types(runs[s].out), <<"thread.started", "turn.started", "turn.failed">>)
       /\ runs[s].pc = "done" =>
            /\ Len(runs[s].out) = 3
            /\ runs[s].out[3].message \in
                 (IF runs[s].respKind = "bad" THEN {MsgStatus, MsgStatusUnread}
                  ELSE {MsgNoBody})
       /\ HistoryGet(histories, runs[s].threadId) = runs[s].history
       /\ runs[s].threadId \in DOMAIN histories => runs[s].history # <<>>

C8_Witness ==
  \E s \in Slots : Http(s) /\ runs[s].respKind = "nobody" /\ runs[s].pc = "done"

\* C9: a response stream that ends with neither a completion nor an error
\* event makes the run yield, last, one turn.failed naming the missing
\* completion event; so a run that reaches the end of the stream has yielded a
\* turn.completed or a turn.failed.
C9_IncompleteStreamFails ==
  \A s \in Slots :
    Http(s) /\ runs[s].respKind = "ok" /\ runs[s].pc = "done"
    => LET terminals == SelectSeq(runs[s].out, IsTerminalEvent) IN
       /\ terminals # <<>>
       /\ ~runs[s].completed /\ ~runs[s].failed =>
            /\ terminals = <<TurnFailed(MsgIncomplete)>>
            /\ runs[s].out[Len(runs[s].out)] = TurnFailed(MsgIncomplete)

C9_Witness ==
  \E s \in Slots :
    /\ Http(s) /\ runs[s].respKind = "ok" /\ runs[s].pc = "done"
    /\ ~runs[s].completed /\ ~runs[s].failed
    /\ Yielded(runs[s], "item.completed")

\* C10: thread.started and turn.started are the first two events of an HTTP
\* run, and the consumer has them while the request is still unanswered.
C10_StartedBeforeResponse ==
  \A s \in Slots :
    Http(s)
    => /\ Len(runs[s].out) >= 1 => runs[s].out[1] = ThreadStarted(runs[s].threadId)
       /\ Len(runs[s].out) >= 2 => runs[s].out[2] = TurnStarted
       /\ runs[s].pc = "fetch" => Len(runs[s].out) = 2

\* The points where an HTTP run waits on the network: for the response, for
\* the text of a non-success response, for the next chunk of the event stream.
NetworkWaits == {"fetch", "text", "read"}

\* C11: an HTTP run called with an aborted signal raises a cancellation error
\* with no event yielded, no request issued and the history unchanged; and
\* when the signal fires while the run waits for the response or for the body,
\* the run ends at once by raising a cancellation error, with no further event
\* and no commit.
C11_CancellationRaises ==
  [][\A s \in Slots :
       /\ (calls' = calls + 1 /\ runs'[s] # runs[s]
             /\ runs'[s].transport = "http" /\ runs'[s].aborted)
          => /\ runs'[s].pc = "raised" /\ runs'[s].err = "cancel"
             /\ runs'[s].out = <<>> /\ runs'[s].request = <<>>
             /\ histories' = histories
       /\ (Http(s) /\ ~runs[s].aborted /\ runs'[s].aborted
             /\ runs[s].pc \in NetworkWaits)
          => /\ runs'[s].pc = "raised" /\ runs'[s].err = "cancel"
             /\ runs'[s].out = runs[s].out
             /\ histories' = histories]_vars

\* C12: a run whose working directory has no .git marker, and which does not
\* skip the check, raises "Not inside a trusted directory" on its first pull:
\* no subprocess, no request, no event, no history read or written, with or
\* without a remote endpoint.
C12_UntrustedDirectoryRaises ==
  [][\A s \in Slots :
       runs'[s].pc # "idle" /\ runs'[s].workingDirectory = "plain"
         /\ ~runs'[s].skipGitRepoCheck
       => /\ runs'[s].pc = "raised" /\ runs'[s].err = "untrusted"
          /\ ~runs'[s].spawned /\ runs'[s].transport = "none"
          /\ runs'[s].request = <<>> /\ runs'[s].out = <<>>
          /\ runs'[s].threadId = NoThread /\ runs'[s].history = <<>>
          /\ runs'[s] # runs[s] => histories' = histories]_vars

C12_Witness ==
  \E s \in Slots :
    /\ runs[s].workingDirectory = "plain" /\ ~runs[s].skipGitRepoCheck
    /\ runs[s].baseUrl /\ runs[s].pc = "raised"
    /\ histories # <<>>

\* C13: the transport is chosen by the presence of baseUrl alone: a run with
\* baseUrl is an HTTP run and never spawns a subprocess, a run without it is a
\* process run that issues no request and neither reads nor writes the history
\* map.
C13_TransportByBaseUrl ==
  [][\A s \in Slots :
       runs'[s].pc # "idle"
       => /\ runs'[s].transport =
               (IF runs'[s].workingDirectory = "plain" /\ ~runs'[s].skipGitRepoCheck
                THEN "none"
                ELSE IF runs'[s].baseUrl THEN "http" ELSE "process")
          /\ runs'[s].baseUrl => ~runs'[s].spawned
          /\ ~runs'[s].baseUrl =>
               /\ runs'[s].request = <<>> /\ runs'[s].respKind = "none"
               /\ runs'[s].threadId = NoThread /\ runs'[s].history = <<>>
               /\ runs'[s] # runs[s] => histories' = histories]_vars

C13_Witness ==
  /\ histories # <<>>
  /\ \E s \in Slots :
       ~runs[s].baseUrl /\ runs[s].spawned /\ runs[s].out # <<>> /\ runs[s].pc = "done"

Process(s) == runs[s].transport = "process"

\* The line loop of a process run is over: stdout ended and every line was
\* taken by the consumer.
LinesOver(rec) == rec.pc \notin {"p_read", "p_yline", "abandoned"}

\* C14: a process run whose subprocess exited with code 0, and whose stdout
\* has ended, has completed without raising, having yielded the lines of the
\* subprocess in order, whichever of the exit and the end of stdout came first.
C14_ZeroExitCompletes ==
  \A s \in Slots :
    Process(s) /\ runs[s].exited /\ runs[s].exitCode = 0 /\ LinesOver(runs[s])
    => /\ runs[s].pc = "done"
       /\ \A i \in 1..Len(runs[s].out) : runs[s].out[i] = LineOf(i - 1)

\* C15: a process run whose subprocess exited with a non-zero code, and whose
\* stdout has ended, has raised an error holding that code and all the stderr
\* text of the subprocess, whichever of the exit and the end of stdout came
\* first and however many lines were yielded.
C15_NonZeroExitRaises ==
  \A s \in Slots :
    Process(s) /\ runs[s].exited /\ runs[s].exitCode \in ExitCodes \ {0}
      /\ LinesOver(runs[s])
    => /\ runs[s].pc = "raised" /\ runs[s].err = "exit"
       /\ runs[s].errCode = runs[s].exitCode
       /\ runs[s].errStderr = runs[s].stderr

\* The part of its stream the parseSse generator has read.
SseConsumed == SubSeq(sse.stream, 1, Len(sse.stream) - Len(sse.rest))

\* C16: however a well-formed stream is cut into chunks, the events parseSse
\* has decoded, and the text it holds back, are those of reading the same text
\* as one chunk; at the end of the stream the decoded events are those of the
\* whole stream read at once.
C16_ChunkBoundaryInvariant ==
  /\ sse.events = ParseSseChunk(<<>>, SseConsumed).events
  /\ sse.buffer = ParseSseChunk(<<>>, SseConsumed).buffer
  /\ sse.done => sse.events = ParseSseChunk(<<>>, sse.stream).events

C16_Witness ==
  /\ sse.done
  /\ sse.cut
  /\ Len(sse.events) = MaxEvents

\* The number an upstream member stands for, 0 when it is absent or null.
UpstreamCount(value) ==
  CASE value.kind \in {"absent", "null"} -> Num(0)
    [] value.kind = "numstr" -> Num(value.n)
    [] OTHER -> value

IsCount(value) == value.kind = "num" /\ value.n >= 0

\* C17: the usage of turn.completed holds the upstream input_tokens,
\* output_tokens and input_tokens_details.cached_tokens, 0 for a member that
\* is absent (or when there is no usage object), and each of the three is a
\* non-negative integer.
C17_UsageMapped ==
  usageCall.returned
  => LET usage == usageCall.usage
         result == usageCall.result
     IN /\ result.input_tokens = UpstreamCount(usage.input_tokens)
        /\ result.output_tokens = UpstreamCount(usage.output_tokens)
        /\ result.cached_input_tokens =
             UpstreamCount(IF usage.details THEN usage.cached_tokens ELSE Absent)
        /\ IsCount(result.input_tokens) /\ IsCount(result.output_tokens)
        /\ IsCount(result.cached_input_tokens)

\* The configuration the process transport passes for the same arguments, as
\* members: every --config override under its key, and --sandbox, --cd and the
\* --add-dir flags under sandbox, working_directory and additional_directories.
RECURSIVE AddDirs(_)
AddDirs(commandArgs) ==
  IF commandArgs = <<>> THEN <<>>
  ELSE (IF Head(commandArgs).flag = "--add-dir" THEN Head(commandArgs).value.v ELSE <<>>)
       \o AddDirs(Tail(commandArgs))

ProcessConfig(commandArgs) ==
  LET entries == {commandArgs[i] : i \in 1..Len(commandArgs)}
      named(flag, key) == {Member(key, e.value) : e \in {f \in entries : f.flag = flag}}
  IN {Member(e.key, e.value) : e \in {f \in entries : f.flag = "--config"}}
     \cup named("--sandbox", "sandbox") \cup named("--cd", "working_directory")
     \cup (IF AddDirs(commandArgs) # <<>>
           THEN {Member("additional_directories", Val("list", AddDirs(commandArgs)))}
           ELSE {})

Keys(members) == {m.key : m \in members}

\* C18: the config of the request body holds, for each option given, the
\* member the process transport passes for it, under the same name and with
\* the same value (false included), and no other member; config is left out
\* when it is empty; model, images and text.format are top-level members
\* exactly when a model, images and an existing schema file are given.
C18_ConfigMirrorsOverrides ==
  bodyCall.built
  => LET args == bodyCall.args
         body == bodyCall.body
     IN /\ body.config = ProcessConfig(CommandArgs(args))
        /\ "sandbox" \in Keys(body.config) <=> args.sandboxMode # Undefined
        /\ "model_reasoning_effort" \in Keys(body.config)
             <=> args.modelReasoningEffort # Undefined
        /\ "sandbox_workspace_write.network_access" \in Keys(body.config)
             <=> args.networkAccessEnabled # Undefined
        /\ "features.web_search_request" \in Keys(body.config)
             <=> args.webSearchEnabled # Undefined
        /\ "approval_policy" \in Keys(body.config) <=> args.approvalPolicy # Undefined
        /\ "additional_directories" \in Keys(body.config)
             <=> args.additionalDirectories # <<>>
        /\ "working_directory" \in Keys(body.config) <=> args.workingDirectory # Undefined
        /\ body.hasConfig <=> args # [NoOptions EXCEPT !.model = args.model,
                                                       !.images = args.images,
                                                       !.outputSchemaFile = args.outputSchemaFile]
        /\ body.top =
             (IF args.model # Undefined
              THEN {Member("model", Val("string", <<args.model>>))} ELSE {})
             \cup (IF args.images # <<>>
                   THEN {Member("images", Val("list", args.images))} ELSE {})
             \cup (IF args.outputSchemaFile = "schema.json"
                   THEN {Member("text.format", Val("string", <<"schema.json">>))} ELSE {})

C18_Witness ==
  /\ bodyCall.built
  /\ bodyCall.args.networkAccessEnabled = "false"
  /\ bodyCall.args.webSearchEnabled = "false"
  /\ Member("sandbox_workspace_write.network_access", Val("bool", <<"false">>))
       \in bodyCall.body.config
  /\ Len(bodyCall.args.additionalDirectories) = 2
  /\ bodyCall.args.model # Undefined

\* C19: a commit appends to the stored history of its thread one user message
\* and, when the turn produced assistant content, one assistant message: the
\* stored list grows by one or two entries.
C19_CommitAppendsOneTurn ==
  [][\A t \in DOMAIN histories' :
       LET old == HistoryGet(histories, t)
           new == histories'[t]
       IN new # old
          => /\ IsPrefix(old, new)
             /\ Len(new) - Len(old) \in {1, 2}
             /\ new[Len(old) + 1].role = "user"
             /\ Len(new) = Len(old) + 2 => new[Len(new)].role = "assistant"]_vars

\* The array objects the history map holds.
StoredArrays == {arrayOf[t] : t \in DOMAIN arrayOf}

\* C20: a run collects its messages in an array of its own, which the map does
\* not hold before the commit; the list stored for a thread changes only when
\* the map is given another array, in the one step in which a run finishes;
\* and what a reader then finds is that run's whole turn: the list the run
\* read, its user message and all its assistant messages.
C20_NoPartialAppend ==
  [][/\ \A s \in Slots :
          Http(s) /\ Active(s) /\ runs'[s] # runs[s] /\ runs'[s].updatedHistory # <<>>
            /\ runs'[s].pc # "done"
          => runs'[s].updatedRef \notin StoredArrays'
     /\ DOMAIN arrayOf' = DOMAIN histories'
     /\ \A t \in DOMAIN histories' :
          LET old == HistoryGet(histories, t)
              new == histories'[t]
          IN /\ (t \in DOMAIN arrayOf /\ arrayOf'[t] = arrayOf[t]) => new = old
             /\ (t \notin DOMAIN histories \/ new # old)
                => \E s \in Slots :
                     /\ Http(s) /\ Active(s) /\ runs'[s].pc = "done"
                     /\ runs[s].threadId = t
                     /\ new = runs[s].history \o <<Msg("user", runs[s].input)>>
                                \o Delivered(runs'[s])]_vars

C20_Witness ==
  \E s \in Slots, t \in Slots :
    /\ Http(s) /\ runs[s].pc = "done" /\ runs[s].completed
    /\ Http(t) /\ Active(t) /\ runs[t].threadId = runs[s].threadId
    /\ runs[t].updatedHistory # <<>>
    /\ runs[t].history # HistoryGet(histories, runs[t].threadId)

\* C21: with runs of different threads in flight together, the history a run
\* replays and the request it sends are those of its own thread and input, a
\* step of a run changes no other thread's stored history, and the history of
\* every thread is what its own turns, run one after the other, produce.
C21_ThreadsAreIsolated ==
  [][/\ \A s \in Slots :
          Http(s)' /\ runs'[s].pc \notin Terminal \cup {"idle", "timer"}
          => /\ runs'[s].threadId = ThreadOfSlot(s)
             /\ runs'[s].history = HistoryGet(transcript', ThreadOfSlot(s))
             /\ runs'[s].request
                  = Replayed(HistoryGet(transcript', ThreadOfSlot(s)))
                    \o <<[role |-> "user", type |-> "input_text", text |-> runs'[s].input]>>
     /\ \A s \in Slots :
          runs'[s] # runs[s]
          => \A t \in DOMAIN histories' \ {ThreadOfSlot(s)} :
               t \in DOMAIN histories /\ histories'[t] = histories[t]
     /\ histories' = transcript']_vars

C21_Witness ==
  /\ \A s \in Slots : Http(s) /\ Active(s) /\ runs[s].completed
  /\ runs[1].threadId # runs[2].threadId

\* C22: in an HTTP run item.started is yielded only when a signal was given,
\* and the event that follows an item.started is the item.completed of the
\* same item (same id, type and text): a run whose last event is an
\* item.started is suspended at that yield, or was abandoned there.
C22_StartedThenCompleted ==
  \A s \in Slots :
    Http(s)
    => \A i \in 1..Len(runs[s].out) :
         runs[s].out[i].type = "item.started"
         => /\ runs[s].hasSignal
            /\ runs[s].out[i].item.type = "agent_message"
            /\ IF i < Len(runs[s].out)
               THEN runs[s].out[i + 1] = ItemCompleted(runs[s].out[i].item)
               ELSE runs[s].pc \in {"y_istart", "abandoned"}

\* The events of a run's response stream, in the order parseSse decoded them,
\* and those among them that complete an output item.
DecodedEvents(rec) == [i \in 1..Len(rec.decoded) |-> EventOf(rec.decoded[i])]
DecodedItems(rec) ==
  SelectSeq(DecodedEvents(rec), LAMBDA e : e.type = "response.output_item.done")
OfType(out, type) == SelectSeq(out, LAMBDA e : e.type = type)

\* C23: after thread.started and turn.started, the k-th item.completed of an
\* HTTP run carries the text of the k-th output-item-completion event of the
\* stream and the id item_(k-1); every decoded event of that kind, and no
\* other, adds an assistant message to the pending history; and an event that
\* is neither that, a completion nor an error adds no output event.
C23_SourceOrder ==
  \A s \in Slots :
    Http(s) /\ runs[s].respKind = "ok"
    => LET rec == runs[s]
           done == OfType(rec.out, "item.completed")
           items == DecodedItems(rec)
       IN /\ Len(done) <= Len(items)
          /\ \A k \in 1..Len(done) :
               done[k].item = [id |-> "item_" \o ToString(k - 1), type |-> "agent_message",
                               text |-> items[k].text]
          /\ Len(done) < Len(items) =>
               Len(items) = Len(done) + 1 /\ rec.pc \in {"y_istart", "raised", "abandoned"}
          /\ rec.updatedHistory
               = rec.history \o <<Msg("user", rec.input)>>
                 \o [k \in 1..Len(items) |-> Msg("assistant", items[k].text)]
          /\ Len(OfType(rec.out, "turn.completed"))
               = Len(SelectSeq(DecodedEvents(rec), LAMBDA e : e.type = "response.completed"))
          /\ Len(rec.out) <= 2 + Len(OfType(rec.out, "item.started")) + Len(done)
                             + Len(SelectSeq(DecodedEvents(rec),
                                             LAMBDA e : e.type \in {"response.completed", "error"}))
                             + 1

C23_Witness ==
  \E s \in Slots :
    /\ Http(s) /\ runs[s].pc = "done"
    /\ Len(OfType(runs[s].out, "item.completed")) = 2
    /\ \E i \in 1..Len(runs[s].decoded) : runs[s].decoded[i] = "created"

\* The delimiters of a text, found from the left without overlap.
RECURSIVE CountDelims(_)
CountDelims(text) ==
  IF Len(text) < 2 THEN 0
  ELSE IF text[1] = NL /\ text[2] = NL THEN 1 + CountDelims(SubSeq(text, 3, Len(text)))
  ELSE CountDelims(Tail(text))

\* The segments of a text that a delimiter ends.
Delimited(text) ==
  LET pieces == SplitOn(text, <<NL, NL>>, <<>>) IN SubSeq(pieces, 1, Len(pieces) - 1)

IsSuffix(a, b) == Len(a) <= Len(b) /\ a = SubSeq(b, Len(b) - Len(a) + 1, Len(b))

\* C24: after any chunks, parseSse has emitted one event for each segment
\* that a blank line has ended and that carries a non-empty data line, and no
\* other; the text after the last delimiter is its buffer; and what is still
\* in the buffer when the stream ends is not emitted.
C24_OnlyDelimitedSegments ==
  /\ Len(Delimited(SseConsumed)) = CountDelims(SseConsumed)
  /\ Len(sse.events)
       = Len(SelectSeq(Delimited(SseConsumed), LAMBDA part : DataLine(part) # <<>>))
  /\ IsSuffix(sse.buffer, SseConsumed)
  /\ CountDelims(sse.buffer) = 0
  /\ CountDelims(SubSeq(SseConsumed, 1, Len(SseConsumed) - Len(sse.buffer)))
       = CountDelims(SseConsumed)

C24_Witness ==
  /\ sse.done
  /\ sse.events # <<>>
  /\ DataLine(sse.buffer) # <<>>

\* The yields of runHttp's loop over the events of parseSse.
DecodeYields == {"y_istart", "y_idone", "y_completed", "y_error"}

\* C25: once the signal has fired while the response stream is being decoded,
\* the run yields no further event: a run suspended in the decode loop with
\* its signal aborted delivers nothing more to its consumer.
C25_NoEventAfterSignal ==
  [][\A s \in Slots :
       Http(s) /\ runs[s].aborted /\ runs[s].pc \in DecodeYields
       => runs'[s].out = runs[s].out]_vars

\* C26: a process run whose signal fired while its subprocess was running
\* (the child then holds an AbortError) has, once it is over, sent the kill
\* and raised the cancellation error: not an exit-code error, not a normal
\* completion, whatever the order of the error, the exit and the end of stdout.
C26_SignalRaisesCancellation ==
  \A s \in Slots :
    Process(s) /\ runs[s].spawnError = "AbortError" /\ runs[s].pc \in {"done", "raised"}
    => runs[s].killed /\ runs[s].pc = "raised" /\ runs[s].err = "cancel"

\* C27: every process run that has ended after its subprocess was spawned
\* (completed, raised, or abandoned by its consumer) has closed the line
\* reader if one was created, and its subprocess has exited or was sent a
\* kill: no run ends leaving its subprocess running.
C27_NoRunLeavesChild ==
  \A s \in Slots :
    Process(s) /\ runs[s].spawned /\ runs[s].pc \in Terminal
    => /\ runs[s].rl \in {"none", "closed"}
       /\ runs[s].rl = "none" => runs[s].err \in {"nostdin", "nostdout"}
       /\ ~runs[s].running \/ runs[s].killed

\* A consumer abandoned a process run at a yielded line while the subprocess
\* was running: the reader is closed and the kill was sent.
C27_Witness ==
  \E s \in Slots :
    /\ Process(s) /\ runs[s].pc = "abandoned" /\ runs[s].out # <<>>
    /\ runs[s].running /\ runs[s].killed /\ runs[s].rl = "closed"

\* C28: for a consumer that keeps pulling, a process run whose subprocess has
\* exited and whose line loop is over (stdout ended, every line taken)
\* eventually terminates: it completes or raises, also when the exit was
\* emitted before the line loop had finished.
C28_ExitedRunTerminates ==
  \A s \in Slots :
    (Process(s) /\ runs[s].exited /\ LinesOver(runs[s])) ~> (runs[s].pc \in {"done", "raised"})

\* The messages of a list.
Range(list) == {list[i] : i \in 1..Len(list)}

\* C29: a commit stores the history the run read at its start, then the run's
\* user message, then its assistant messages.  When nothing was committed to
\* the thread since the run read it, the list stored before is a strict prefix
\* of the new one; when another turn was committed meanwhile, the later commit
\* wins and the user messages of that other turn are no longer stored.
C29_CommitStoresSnapshotAndTurn ==
  [][\A s \in Slots :
       Http(s) /\ Active(s) /\ runs'[s].pc = "done" /\ runs'[s].completed
       => LET t == runs[s].threadId
              old == HistoryGet(histories, t)
              new == HistoryGet(histories', t)
              own == <<Msg("user", runs[s].input)>> \o Delivered(runs'[s])
          IN /\ new = runs[s].history \o own
             /\ runs[s].history = old => IsPrefix(old, new) /\ Len(new) > Len(old)
             /\ runs[s].history # old
                => \A m \in Range(old) \ Range(runs[s].history) :
                     m.role = "user" => m \notin Range(new)]_vars

\* Two completed turns of one thread that read the same history: the stored
\* list is the later one's, without the user message of the other.
C29_Witness ==
  \E s \in Slots, u \in Slots :
    /\ s # u /\ Http(s) /\ Http(u)
    /\ runs[s].pc = "done" /\ runs[s].completed /\ runs[u].pc = "done" /\ runs[u].completed
    /\ runs[s].threadId = runs[u].threadId /\ runs[s].history = runs[u].history
    /\ HistoryGet(histories, runs[s].threadId) = runs[s].updatedHistory
    /\ Msg("user", runs[u].input) \notin Range(runs[s].updatedHistory)

====
